---- MODULE Spec2Model ----
(***************************************************************************)
(* Model of the airport booking service: the relational store (airplanes,  *)
(* flights, orders, tickets), the model layer (Ticket.validate_ticket,     *)
(* Ticket.clean, Ticket.save), the order serializer and the viewsets.      *)
(* Routes, crews, airports and images carry no seat logic and are left     *)
(* out; a flight is its airplane reference.                                *)
(***************************************************************************)
EXTENDS Integers, Sequences, FiniteSets, Bags, TLC

\* ---------------------------------------------------------------- bounds
MaxRows == 2        \* largest rows value of an airplane payload
MaxSeats == 2       \* largest seats_in_row value of an airplane payload
MaxAirplanes == 2   \* cap on the Airplane id counter
MaxFlights == 2     \* cap on the Flight id counter
MaxOrders == 1      \* cap on the Order id counter
MaxTickets == 2     \* cap on the number of rows of the Ticket table
MaxBatch == 2       \* longest tickets list of an order request

Procs == {1, 2}     \* workers that serve booking calls concurrently

\* ----------------------------------------------------------------- users
Anonymous == "anon"
Users == {"alice", "admin"}
Callers == Users \cup {Anonymous}
is_staff(u) == u = "admin"
is_authenticated(u) == u \in Users
Staff == {u \in Users : is_staff(u)}

None == "none"

VARIABLES
    airplanes,      \* table Airplane: id -> [name, rows, seats_in_row, airplane_type]
    flights,        \* table Flight:   id -> [airplane]
    orders,         \* table Order:    id -> [user]
    tickets,        \* table Ticket:   bag of [flight, row, seat, order] (ids left out)
    next_id,        \* auto-increment counters of the other tables
    pc,             \* per worker: "idle", "insert" (inside Ticket.save, between
                    \* full_clean and the INSERT) or "return" (call finished)
    cur,            \* per worker: the Ticket instance being saved
    result,         \* per worker: the outcome its finished call is returning
    response,       \* the last response of a management or listing endpoint
    queryset_cache, \* _result_cache of the class attribute FlightViewSet.queryset
    paginated,      \* whether a project-wide DEFAULT_PAGINATION_CLASS is configured
    probe           \* inputs and outcome of a stand-alone validate_ticket call

vars == <<airplanes, flights, orders, tickets, next_id, pc, cur, result,
          response, queryset_cache, paginated, probe>>

\* ------------------------------------------------------------ seat logic
\* Airplane.capacity
capacity(airplane) == airplane.rows * airplane.seats_in_row

validate_ticket_no_upper(row, seat, airplane) ==
    IF ~(1 <= row) THEN {"row"}
    ELSE IF ~(1 <= seat) THEN {"seat"}
    ELSE {}

validate_ticket_seat_first(row, seat, airplane) ==
    IF ~(1 <= seat /\ seat <= airplane.seats_in_row) THEN {"seat"}
    ELSE IF ~(1 <= row /\ row <= airplane.rows) THEN {"row"}
    ELSE {}

\* Ticket.validate_ticket: the loop visits (row, rows) and then
\* (seat, seats_in_row) and raises at the first value outside 1..count.
\* The value is the set of keys of the raised error dict ({} when nothing
\* is raised).
validate_ticket(row, seat, airplane) ==
    IF ~(1 <= row /\ row <= airplane.rows) THEN {"row"}
    ELSE IF ~(1 <= seat /\ seat <= airplane.seats_in_row) THEN {"seat"}
    ELSE {}

\* The range quoted by the message of a raised field error:
\* "(1, rows): (1, <rows>)" or "(1, seats_in_row): (1, <seats_in_row>)".
error_range(field, airplane) ==
    IF field = "row" THEN <<1, airplane.rows>> ELSE <<1, airplane.seats_in_row>>

\* --------------------------------------------------------------- records
NoTicket == [flight |-> 0, row |-> 0, seat |-> 0, order |-> 0, airplane |-> 0]

NoResult ==
    [op |-> None, user |-> None, status |-> 0, error |-> None, fields |-> {},
     tickets |-> <<>>, valid |-> FALSE, out_of_range |-> FALSE, body |-> <<>>]

NoProbe == [row |-> 0, seat |-> 0, rows |-> 0, seats_in_row |-> 0,
            fields |-> {}, ranges |-> <<>>, done |-> FALSE]

NoCache == [evaluated |-> FALSE, rows |-> <<>>]

\* f extended by the row k -> v
Put(f, k, v) == [x \in DOMAIN f \cup {k} |-> IF x = k THEN v ELSE f[x]]
\* f without the row k
Drop(f, k) == [x \in DOMAIN f \ {k} |-> f[x]]

Init ==
    /\ airplanes = <<>>
    /\ flights = <<>>
    /\ orders = <<>>
    /\ tickets = EmptyBag
    /\ next_id = [airplane |-> 1, flight |-> 1, order |-> 1]
    /\ pc = [p \in Procs |-> "idle"]
    /\ cur = [p \in Procs |-> NoTicket]
    /\ result = [p \in Procs |-> NoResult]
    /\ response = NoResult
    /\ queryset_cache = NoCache
    /\ paginated = FALSE
    /\ probe = NoProbe

\* ----------------------------------------------------------- permissions
SAFE_METHODS == {"GET", "HEAD", "OPTIONS"}

\* airport.permissions.IsAuthenticatedOrIsAdminReadOnly: reads for any
\* authenticated user, writes for staff only.
IsAuthenticatedOrIsAdminReadOnly(u, method) ==
    \/ (method \in SAFE_METHODS /\ is_authenticated(u))
    \/ (is_authenticated(u) /\ is_staff(u))

\* rest_framework.permissions.IsAuthenticated, as OrderViewSet names it.
IsAuthenticated(u, method) == is_authenticated(u)

\* The status of a request the permission check stops (0: it passes): 401
\* without credentials, 403 with credentials that do not suffice.
Denied(u, allowed) ==
    IF allowed THEN 0 ELSE IF ~is_authenticated(u) THEN 401 ELSE 403

Response(op, u, status) == [NoResult EXCEPT !.op = op, !.user = u, !.status = status]

\* ------------------------------------------------------------ Ticket.save
SameSeat(t, f, row, seat) == t.flight = f /\ t.row = row /\ t.seat = seat

\* Ticket.Meta.unique_together = ("flight", "row", "seat"): TRUE when a row
\* of the Ticket table already holds the triple.
unique_together(tks, f, row, seat) ==
    \E t \in BagToSet(tks) : SameSeat(t, f, row, seat)

\* Model.full_clean as Ticket.save runs it: clean_fields, then clean()
\* (validate_ticket against the airplane of the instance's flight), then
\* validate_unique, which skips a unique_together check naming a field
\* that already failed. The value is the set of keys of the collected
\* error dict; "__all__" is the key of the unique_together error.
full_clean(t, tks, planes) ==
    LET field_errors == validate_ticket(t.row, t.seat, planes[t.airplane])
        unique_errors ==
            IF field_errors \cap {"flight", "row", "seat"} = {}
               /\ unique_together(tks, t.flight, t.row, t.seat)
            THEN {"__all__"} ELSE {}
    IN field_errors \cup unique_errors

InsertRejectedForeignKeyOnly(t, tks, fls) ==
    IF t.flight \notin DOMAIN fls THEN "foreign_key" ELSE None

\* The INSERT of super().save(): the store rejects a row whose flight is
\* gone (foreign key) or whose (flight, row, seat) is taken (the unique
\* constraint of unique_together). The value names the violated constraint
\* (None when the row is accepted).
InsertRejected(t, tks, fls) ==
    IF t.flight \notin DOMAIN fls THEN "foreign_key"
    ELSE IF unique_together(tks, t.flight, t.row, t.seat) THEN "unique_together"
    ELSE None

\* A ticket request lies in the seat map of its flight's airplane.
InRange(d) ==
    /\ d.flight \in DOMAIN flights
    /\ 1 <= d.row /\ d.row <= airplanes[flights[d.flight].airplane].rows
    /\ 1 <= d.seat /\ d.seat <= airplanes[flights[d.flight].airplane].seats_in_row

TicketRow(t) ==
    [flight |-> t.flight, row |-> t.row, seat |-> t.seat, order |-> t.order]

\* The Ticket table with one more row.
Inserted(tks, row) == tks (+) SetToBag({row})

\* The rows of the Ticket table that reference flight f.
TicketsOf(tks, f) == [t \in {x \in BagToSet(tks) : x.flight = f} |-> tks[t]]

\* Ticket.objects.create(order=o, flight=f, row=row, seat=seat), first half:
\* Ticket.save calls self.full_clean(); a ValidationError ends the call.
\* result.out_of_range records whether the request lay outside the seat map
\* of its flight's airplane at the time of the call.
TicketSaveFullClean(p, o, f, row, seat) ==
    /\ pc[p] = "idle"
    /\ o \in DOMAIN orders
    /\ f \in DOMAIN flights
    /\ BagCardinality(tickets) + Cardinality({q \in Procs : pc[q] = "insert"})
           < MaxTickets
    /\ LET t == [flight |-> f, row |-> row, seat |-> seat, order |-> o,
                 airplane |-> flights[f].airplane]
           errors == full_clean(t, tickets, airplanes)
       IN IF errors # {}
          THEN /\ result' = [result EXCEPT ![p] =
                       [NoResult EXCEPT !.op = "ticket_create",
                                        !.error = "ValidationError",
                                        !.fields = errors,
                                        !.out_of_range = ~InRange(t)]]
               /\ pc' = [pc EXCEPT ![p] = "return"]
               /\ UNCHANGED cur
          ELSE /\ pc' = [pc EXCEPT ![p] = "insert"]
               /\ cur' = [cur EXCEPT ![p] = t]
               /\ UNCHANGED result
    /\ UNCHANGED <<airplanes, flights, orders, tickets, next_id, response,
                   queryset_cache, paginated, probe>>

\* Ticket.save, second half: super().save() inserts the row; a constraint
\* violation of the store surfaces as IntegrityError, which save() does not
\* catch.
TicketSaveInsert(p) ==
    /\ pc[p] = "insert"
    /\ LET rejected == InsertRejected(cur[p], tickets, flights)
       IN IF rejected # None
          THEN /\ result' = [result EXCEPT ![p] =
                       [NoResult EXCEPT !.op = "ticket_create",
                                        !.error = "IntegrityError",
                                        !.fields = {rejected}]]
               /\ UNCHANGED tickets
          ELSE /\ tickets' = Inserted(tickets, TicketRow(cur[p]))
               /\ result' = [result EXCEPT ![p] =
                       [NoResult EXCEPT !.op = "ticket_create"]]
    /\ pc' = [pc EXCEPT ![p] = "return"]
    /\ cur' = [cur EXCEPT ![p] = NoTicket]
    /\ UNCHANGED <<airplanes, flights, orders, next_id, response, queryset_cache,
                   paginated, probe>>

\* The call of worker p returns (or raises) to its caller; the worker is
\* free again.
Return(p) ==
    /\ pc[p] = "return"
    /\ pc' = [pc EXCEPT ![p] = "idle"]
    /\ result' = [result EXCEPT ![p] = NoResult]
    /\ UNCHANGED <<airplanes, flights, orders, tickets, next_id, cur, response,
                   queryset_cache, paginated, probe>>

\* ---------------------------------------------------------- TicketSerializer
\* Serializer.run_validation for TicketSerializer: to_internal_value
\* resolves the primary keys of flight and order and collects their field
\* errors; then run_validators applies the UniqueTogetherValidator that
\* ModelSerializer derives from Ticket.Meta.unique_together (its error is
\* filed under "non_field_errors"); only then validate() calls
\* Ticket.validate_ticket. The value is the set of keys of serializer.errors.
TicketSerializerRunValidation(data, tks) ==
    LET field_errors ==
            (IF data.flight \notin DOMAIN flights THEN {"flight"} ELSE {})
            \cup (IF data.order \notin DOMAIN orders THEN {"order"} ELSE {})
    IN IF field_errors # {} THEN field_errors
       ELSE IF unique_together(tks, data.flight, data.row, data.seat)
       THEN {"non_field_errors"}
       ELSE validate_ticket(data.row, data.seat,
                            airplanes[flights[data.flight].airplane])

\* TicketSerializer(data=...).is_valid(): validation only, nothing is
\* written. result.out_of_range records whether the request lay outside the
\* seat map of its flight's airplane at the time of the call.
TicketSerializerIsValid(p, o, f, row, seat) ==
    /\ pc[p] = "idle"
    /\ LET data == [flight |-> f, row |-> row, seat |-> seat, order |-> o]
           errors == TicketSerializerRunValidation(data, tickets)
       IN result' = [result EXCEPT ![p] =
              [NoResult EXCEPT !.op = "ticket_validate",
                               !.error = IF errors # {} THEN "ValidationError"
                                         ELSE None,
                               !.fields = errors,
                               !.out_of_range = (f \in DOMAIN flights
                                                 /\ ~InRange(data))]]
    /\ pc' = [pc EXCEPT ![p] = "return"]
    /\ UNCHANGED <<airplanes, flights, orders, tickets, next_id, cur, response,
                   queryset_cache, paginated, probe>>

\* Order.objects.create(user=<User instance>)
OrderObjectsCreate(u) ==
    /\ next_id.order <= MaxOrders
    /\ orders' = Put(orders, next_id.order, [user |-> u])
    /\ next_id' = [next_id EXCEPT !.order = @ + 1]
    /\ UNCHANGED <<airplanes, flights, tickets, pc, cur, result, response,
                   queryset_cache, paginated, probe>>

\* ---------------------------------------------------------- AirplaneViewSet
AirplaneRowSwapped(payload) ==
    [name |-> payload.name, rows |-> payload.seats_in_row,
     seats_in_row |-> payload.rows, airplane_type |-> payload.airplane_type]

\* AirplaneSerializer.create: the row ModelSerializer persists for a
\* validated payload (id is assigned by the store, image stays null).
AirplaneRow(payload) ==
    [name |-> payload.name, rows |-> payload.rows,
     seats_in_row |-> payload.seats_in_row, airplane_type |-> payload.airplane_type]

\* POST /airplanes/ (CreateModelMixin.create behind the permission check)
AirplaneViewSetCreate(u, payload) ==
    /\ LET denied == Denied(u, IsAuthenticatedOrIsAdminReadOnly(u, "POST"))
       IN IF denied # 0
          THEN /\ response' = [Response("airplane_create", u, denied) EXCEPT
                                   !.body = <<0, payload>>]
               /\ UNCHANGED <<airplanes, next_id>>
          ELSE /\ next_id.airplane <= MaxAirplanes
               /\ airplanes' = Put(airplanes, next_id.airplane, AirplaneRow(payload))
               /\ next_id' = [next_id EXCEPT !.airplane = @ + 1]
               /\ response' = [Response("airplane_create", u, 201) EXCEPT
                                   !.body = <<next_id.airplane, payload>>]
    /\ UNCHANGED <<flights, orders, tickets, pc, cur, result, queryset_cache,
                   paginated, probe>>

\* GET /airplanes/ (ListModelMixin.list behind the permission check); the
\* body is the set of listed airplane ids.
AirplaneViewSetList(u) ==
    /\ LET denied == Denied(u, IsAuthenticatedOrIsAdminReadOnly(u, "GET"))
       IN response' =
              IF denied # 0 THEN Response("airplane_list", u, denied)
              ELSE [Response("airplane_list", u, 200) EXCEPT !.body = <<DOMAIN airplanes>>]
    /\ UNCHANGED <<airplanes, flights, orders, tickets, next_id, pc, cur, result,
                   queryset_cache, paginated, probe>>

\* ------------------------------------------------------------ FlightViewSet
\* POST /flights/ : FlightSerializer checks that the airplane exists.
FlightViewSetCreate(u, a) ==
    /\ LET denied == Denied(u, IsAuthenticatedOrIsAdminReadOnly(u, "POST"))
       IN IF denied # 0
          THEN /\ response' = Response("flight_create", u, denied)
               /\ UNCHANGED <<flights, next_id>>
          ELSE IF a \notin DOMAIN airplanes
          THEN /\ response' = [Response("flight_create", u, 400) EXCEPT
                                   !.fields = {"airplane"}]
               /\ UNCHANGED <<flights, next_id>>
          ELSE /\ next_id.flight <= MaxFlights
               /\ flights' = Put(flights, next_id.flight, [airplane |-> a])
               /\ next_id' = [next_id EXCEPT !.flight = @ + 1]
               /\ response' = Response("flight_create", u, 201)
    /\ UNCHANGED <<airplanes, orders, tickets, pc, cur, result, queryset_cache,
                   paginated, probe>>

\* PUT/PATCH /flights/<f>/ : FlightSerializer.update assigns the submitted
\* airplane; no validator consults the tickets of the flight.
FlightViewSetUpdate(u, f, a) ==
    /\ LET denied == Denied(u, IsAuthenticatedOrIsAdminReadOnly(u, "PUT"))
       IN IF denied # 0
          THEN /\ response' = Response("flight_update", u, denied)
               /\ UNCHANGED flights
          ELSE IF f \notin DOMAIN flights
          THEN /\ response' = Response("flight_update", u, 404)
               /\ UNCHANGED flights
          ELSE IF a \notin DOMAIN airplanes
          THEN /\ response' = [Response("flight_update", u, 400) EXCEPT
                                   !.fields = {"airplane"}]
               /\ UNCHANGED flights
          ELSE /\ flights' = [flights EXCEPT ![f] = [airplane |-> a]]
               /\ response' = Response("flight_update", u, 200)
    /\ UNCHANGED <<airplanes, orders, tickets, next_id, pc, cur, result,
                   queryset_cache, paginated, probe>>

\* DELETE /flights/<f>/ : the delete cascades to the tickets of the flight
\* (Ticket.flight is on_delete=CASCADE).
FlightViewSetDestroy(u, f) ==
    /\ LET denied == Denied(u, IsAuthenticatedOrIsAdminReadOnly(u, "DELETE"))
       IN IF denied # 0
          THEN /\ response' = Response("flight_destroy", u, denied)
               /\ UNCHANGED <<flights, tickets>>
          ELSE IF f \notin DOMAIN flights
          THEN /\ response' = Response("flight_destroy", u, 404)
               /\ UNCHANGED <<flights, tickets>>
          ELSE /\ flights' = Drop(flights, f)
               /\ tickets' = [t \in {x \in BagToSet(tickets) : x.flight # f} |->
                                  tickets[t]]
               /\ response' = Response("flight_destroy", u, 204)
    /\ UNCHANGED <<airplanes, orders, next_id, pc, cur, result, queryset_cache,
                   paginated, probe>>

\* The annotation of FlightViewSet.queryset, evaluated against the store:
\* tickets_available = airplane.rows * airplane.seats_in_row - Count(tickets)
tickets_available(f) ==
    capacity(airplanes[flights[f].airplane])
        - BagCardinality(TicketsOf(tickets, f))

FlightRows == [f \in DOMAIN flights |-> tickets_available(f)]

\* What FlightViewSet.get_queryset hands to list(): with a query parameter
\* .filter() clones the class-level queryset, and a paginator slices it (a
\* clone as well), so the rows are fetched anew; without either,
\* self.queryset itself is iterated, and a QuerySet that was iterated once
\* answers from its _result_cache. The model's flights all match the filter.
get_queryset(filtered) ==
    IF filtered \/ paginated \/ ~queryset_cache.evaluated
    THEN FlightRows
    ELSE queryset_cache.rows

\* GET /flights/ (FlightListSerializer over get_queryset())
FlightViewSetList(u, filtered) ==
    /\ LET denied == Denied(u, IsAuthenticatedOrIsAdminReadOnly(u, "GET"))
       IN IF denied # 0
          THEN /\ response' = Response("flight_list", u, denied)
               /\ UNCHANGED queryset_cache
          ELSE /\ response' = [Response("flight_list", u, 200) EXCEPT
                                   !.body = get_queryset(filtered)]
               /\ queryset_cache' =
                      IF filtered \/ paginated THEN queryset_cache
                      ELSE [evaluated |-> TRUE, rows |-> get_queryset(filtered)]
    /\ UNCHANGED <<airplanes, flights, orders, tickets, next_id, pc, cur, result,
                   paginated, probe>>

\* ------------------------------------------------------------- OrderViewSet
\* The fields of OrderSerializer that take input: "id" and "created_at" are
\* read-only model fields and "tickets" is declared read_only=True.
OrderSerializerWritableFields == {}

\* serializer.save(user=self.request.user.pk): the validated input (the
\* writable fields of the request data) merged with the keyword argument,
\* the primary key of the caller.
ValidatedData(u, data) ==
    [k \in (OrderSerializerWritableFields \cap DOMAIN data) \cup {"user"} |->
        IF k = "user" THEN [kind |-> "pk", id |-> u] ELSE data[k]]

Store == [orders |-> orders, tickets |-> tickets, next_id |-> next_id]

Raised(error, fields, db) == [error |-> error, fields |-> fields, db |-> db]

\* The loop of OrderSerializer.create from its i-th pass on:
\* Ticket.objects.create(order=order, **ticket_data), i.e. Ticket.save, for
\* each ticket_data in input order; the first exception ends the loop.
RECURSIVE CreateTickets(_, _, _, _)
CreateTickets(tickets_data, i, order, db) ==
    IF i > Len(tickets_data) THEN Raised(None, {}, db)
    ELSE
        LET d == tickets_data[i]
            t == [flight |-> d.flight, row |-> d.row, seat |-> d.seat,
                  order |-> order, airplane |-> flights[d.flight].airplane]
            errors == full_clean(t, db.tickets, airplanes)
            rejected == InsertRejected(t, db.tickets, flights)
        IN IF errors # {} THEN Raised("ValidationError", errors, db)
           ELSE IF rejected # None THEN Raised("IntegrityError", {rejected}, db)
           ELSE CreateTickets(tickets_data, i + 1, order,
                    [db EXCEPT !.tickets = Inserted(@, TicketRow(t))])

\* transaction.atomic(): an exception leaving the block rolls the store back
\* to its state at entry and propagates.
TransactionAtomic(db, outcome) ==
    IF outcome.error # None THEN [outcome EXCEPT !.db = db] ELSE outcome

OrderSerializerCreateOrderFirst(validated_data, db) ==
    LET db1 == [db EXCEPT
                    !.orders = Put(@, db.next_id.order,
                                   [user |-> validated_data.user.id]),
                    !.next_id.order = @ + 1]
    IN IF "tickets" \notin DOMAIN validated_data
       THEN Raised("KeyError", {"tickets"}, db1)
       ELSE TransactionAtomic(db1,
                CreateTickets(validated_data.tickets, 1, db.next_id.order, db1))

\* OrderSerializer.create: inside transaction.atomic(),
\* validated_data.pop("tickets") (KeyError when the key is absent), then
\* Order.objects.create(**validated_data) (ValueError when "user" is not a
\* User instance), then the loop over the tickets.
OrderSerializerCreate(validated_data, db) ==
    TransactionAtomic(db,
        IF "tickets" \notin DOMAIN validated_data
        THEN Raised("KeyError", {"tickets"}, db)
        ELSE IF validated_data.user.kind # "instance"
        THEN Raised("ValueError", {"user"}, db)
        ELSE LET db1 == [db EXCEPT
                            !.orders = Put(@, db.next_id.order,
                                           [user |-> validated_data.user.id]),
                            !.next_id.order = @ + 1]
             IN CreateTickets(validated_data.tickets, 1, db.next_id.order, db1))

\* A batch whose requests are all in range and collide neither with a
\* persisted ticket nor with each other.
BatchValid(reqs) ==
    \A i \in 1..Len(reqs) :
        /\ InRange(reqs[i])
        /\ ~unique_together(tickets, reqs[i].flight, reqs[i].row, reqs[i].seat)
        /\ \A j \in 1..(i - 1) : reqs[j] # reqs[i]

\* POST /orders/ : CreateModelMixin.create -> perform_create ->
\* serializer.save(user=request.user.pk) -> OrderSerializer.create. An
\* exception other than a validation error is a 500 response. result.valid
\* records whether the batch was valid against the store at the time of the
\* call.
OrderViewSetCreate(p, u, reqs) ==
    /\ pc[p] = "idle"
    /\ LET denied == Denied(u, IsAuthenticated(u, "POST"))
           out == OrderSerializerCreate(ValidatedData(u, [tickets |-> reqs]), Store)
           call == [Response("order_create", u, 0) EXCEPT
                        !.tickets = reqs, !.valid = BatchValid(reqs)]
       IN IF denied # 0
          THEN /\ result' = [result EXCEPT ![p] = [call EXCEPT !.status = denied]]
               /\ UNCHANGED <<orders, tickets, next_id>>
          ELSE /\ out.db.next_id.order <= MaxOrders + 1
               /\ BagCardinality(out.db.tickets) <= MaxTickets
               /\ orders' = out.db.orders
               /\ tickets' = out.db.tickets
               /\ next_id' = out.db.next_id
               /\ result' = [result EXCEPT ![p] =
                       IF out.error = None
                       THEN [call EXCEPT !.status = 201,
                                         !.body = <<next_id.order>>]
                       ELSE [call EXCEPT
                                !.status = IF out.error = "ValidationError"
                                           THEN 400 ELSE 500,
                                !.error = out.error,
                                !.fields = out.fields]]
    /\ pc' = [pc EXCEPT ![p] = "return"]
    /\ UNCHANGED <<airplanes, flights, cur, response, queryset_cache,
                   paginated, probe>>

\* OrderPagination.page_size
page_size == 10

OrderViewSetGetQuerysetAll(u) == DOMAIN orders

\* OrderViewSet.get_queryset: Order.objects.filter(user=request.user.pk),
\* as the set of ids of the selected rows.
OrderViewSetGetQueryset(u) == {o \in DOMAIN orders : orders[o].user = u}

\* Order.Meta.ordering = ["-created_at"]: created_at is set on insert, so
\* the newest row is the one with the largest id.
RECURSIVE NewestFirst(_)
NewestFirst(ids) ==
    IF ids = {} THEN <<>>
    ELSE LET newest == CHOOSE x \in ids : \A y \in ids : y <= x
         IN <<newest>> \o NewestFirst(ids \ {newest})

\* OrderListSerializer: an order with the tickets of its reverse relation
\* Ticket.order (related_name="tickets").
OrderListEntry(o) ==
    [id |-> o, tickets |-> {t \in BagToSet(tickets) : t.order = o}]

\* PageNumberPagination over count rows: the number of pages (an empty
\* first page is allowed).
num_pages(count) ==
    IF count = 0 THEN 1 ELSE (count + page_size - 1) \div page_size

\* PageNumberPagination.paginate_queryset: the page-th slice of page_size
\* rows.
paginate_queryset(rows, page) ==
    SubSeq(rows, (page - 1) * page_size + 1,
           IF page * page_size < Len(rows) THEN page * page_size ELSE Len(rows))

\* GET /orders/?page=<page> : ListModelMixin.list over get_queryset(), with
\* OrderPagination and OrderListSerializer; a page past the last one is a
\* 404. The body is the page number, the count and the listed entries.
OrderViewSetList(u, page) ==
    /\ LET denied == Denied(u, IsAuthenticated(u, "GET"))
           rows == NewestFirst(OrderViewSetGetQueryset(u))
           listed == paginate_queryset(rows, page)
       IN response' =
              IF denied # 0 THEN Response("order_list", u, denied)
              ELSE IF page > num_pages(Len(rows))
              THEN Response("order_list", u, 404)
              ELSE [Response("order_list", u, 200) EXCEPT
                        !.body = <<[page |-> page, count |-> Len(rows),
                                    results |-> [i \in DOMAIN listed |->
                                                    OrderListEntry(listed[i])]]>>]
    /\ UNCHANGED <<airplanes, flights, orders, tickets, next_id, pc, cur, result,
                   queryset_cache, paginated, probe>>

\* -------------------------------------------- a call of validate_ticket
ValidateTicketCall(row, seat, rows, seats_in_row) ==
    /\ LET airplane == [rows |-> rows, seats_in_row |-> seats_in_row]
           fields == validate_ticket(row, seat, airplane)
       IN probe' = [row |-> row, seat |-> seat, rows |-> rows,
                    seats_in_row |-> seats_in_row, fields |-> fields,
                    ranges |-> [f \in fields |-> error_range(f, airplane)],
                    done |-> TRUE]
    /\ UNCHANGED <<airplanes, flights, orders, tickets, next_id, pc, cur,
                   result, response, queryset_cache, paginated>>

\* ------------------------------------------------------------------ inputs
RowInputs == 0..(MaxRows + 1)
SeatInputs == 0..(MaxSeats + 1)

\* Airplane payloads of the booking specifications: the smallest and the
\* largest seat map.
SeatMapPayloads ==
    {[name |-> "a", rows |-> 1, seats_in_row |-> 1, airplane_type |-> 1],
     [name |-> "a", rows |-> MaxRows, seats_in_row |-> MaxSeats, airplane_type |-> 1]}

\* Airplane payloads of the access specification.
AirplanePayloads ==
    [name : {"a", "b"}, rows : 1..MaxRows, seats_in_row : 1..MaxSeats,
     airplane_type : {1}]

\* Ticket requests of an order: the first seat and a row past the last one
\* of the largest seat map, on the first flight.
OrderRequests ==
    [row : {1, MaxRows + 1}, seat : {1}, flight : {1}]

\* The tickets lists of an order request: up to MaxBatch requests.
OrderBatches == UNION {[1..n -> OrderRequests] : n \in 0..MaxBatch}

\* The callers of the order endpoint: a customer and an anonymous client.
OrderCallers == {"alice", Anonymous}

\* ---------------------------------------------------------- specifications
\* The booking system: every operation that writes the store, with two
\* workers saving tickets concurrently.
Next ==
    \/ \E u \in Staff, payload \in SeatMapPayloads :
           AirplaneViewSetCreate(u, payload)
    \/ \E u \in Staff, a \in DOMAIN airplanes :
           FlightViewSetCreate(u, a)
    \/ \E u \in Staff, f \in DOMAIN flights, a \in DOMAIN airplanes :
           FlightViewSetUpdate(u, f, a)
    \/ \E u \in Staff, f \in DOMAIN flights :
           FlightViewSetDestroy(u, f)
    \/ \E u \in Users : OrderObjectsCreate(u)
    \/ \E p \in Procs, o \in DOMAIN orders, f \in DOMAIN flights,
          row \in RowInputs, seat \in SeatInputs :
           TicketSaveFullClean(p, o, f, row, seat)
    \/ \E p \in Procs : TicketSaveInsert(p)
    \/ \E p \in Procs : Return(p)

Spec == Init /\ [][Next]_vars

\* Order creation: the order endpoint called by either worker, over a store
\* that the management endpoints and Ticket.save (one worker, in-range
\* seats) fill.
NextOrders ==
    \/ \E u \in Staff, payload \in SeatMapPayloads : AirplaneViewSetCreate(u, payload)
    \/ \E u \in Staff, a \in DOMAIN airplanes : FlightViewSetCreate(u, a)
    \/ OrderObjectsCreate("alice")
    \/ \E o \in DOMAIN orders, f \in DOMAIN flights : TicketSaveFullClean(1, o, f, 1, 1)
    \/ TicketSaveInsert(1)
    \/ \E p \in Procs, u \in OrderCallers, reqs \in OrderBatches :
           OrderViewSetCreate(p, u, reqs)
    \/ \E p \in Procs : Return(p)

SpecOrders == Init /\ [][NextOrders]_vars

\* Flight listing: GET /flights/ between writes to the store, with and
\* without a project-wide paginator (the settings module decides, and it is
\* not among the sources).
InitListing ==
    /\ airplanes = <<>>
    /\ flights = <<>>
    /\ orders = <<>>
    /\ tickets = EmptyBag
    /\ next_id = [airplane |-> 1, flight |-> 1, order |-> 1]
    /\ pc = [p \in Procs |-> "idle"]
    /\ cur = [p \in Procs |-> NoTicket]
    /\ result = [p \in Procs |-> NoResult]
    /\ response = NoResult
    /\ queryset_cache = NoCache
    /\ paginated \in BOOLEAN
    /\ probe = NoProbe

NextListing ==
    \/ \E u \in Staff, payload \in SeatMapPayloads : AirplaneViewSetCreate(u, payload)
    \/ \E u \in Staff, a \in DOMAIN airplanes : FlightViewSetCreate(u, a)
    \/ \E u \in Staff, f \in DOMAIN flights : FlightViewSetDestroy(u, f)
    \/ OrderObjectsCreate("alice")
    \/ \E o \in DOMAIN orders, f \in DOMAIN flights, row \in 1..MaxRows :
           TicketSaveFullClean(1, o, f, row, 1)
    \/ TicketSaveInsert(1)
    \/ Return(1)
    \/ \E u \in Callers, filtered \in BOOLEAN : FlightViewSetList(u, filtered)

SpecListing == InitListing /\ [][NextListing]_vars

\* Access control of the airplane endpoints: every caller, every payload.
NextAccess ==
    \/ \E u \in Callers, payload \in AirplanePayloads : AirplaneViewSetCreate(u, payload)
    \/ \E u \in Callers : AirplaneViewSetList(u)

SpecAccess == Init /\ [][NextAccess]_vars

\* The two ticket creation paths, Ticket.save and TicketSerializer, over a
\* store in which flights are created and reassigned to other airplanes.
NextTicketPaths ==
    \/ \E u \in Staff, payload \in SeatMapPayloads : AirplaneViewSetCreate(u, payload)
    \/ \E u \in Staff, a \in DOMAIN airplanes : FlightViewSetCreate(u, a)
    \/ \E u \in Staff, f \in DOMAIN flights, a \in DOMAIN airplanes :
           FlightViewSetUpdate(u, f, a)
    \/ OrderObjectsCreate("alice")
    \/ \E o \in DOMAIN orders, f \in DOMAIN flights,
          row \in RowInputs, seat \in SeatInputs :
           TicketSaveFullClean(1, o, f, row, seat)
    \/ TicketSaveInsert(1)
    \/ \E o \in 1..MaxOrders, f \in 1..MaxFlights,
          row \in RowInputs, seat \in SeatInputs :
           TicketSerializerIsValid(1, o, f, row, seat)
    \/ Return(1)

SpecTicketPaths == Init /\ [][NextTicketPaths]_vars

\* Order tables the listing starts from: up to one more order than a page
\* holds, all of one customer except possibly the oldest and the newest.
OrderStores ==
    UNION {{[i \in 1..n |-> [user |-> IF i \in others THEN "admin" ELSE "alice"]] :
               others \in SUBSET {1, n}} :
           n \in {0, 1, 2, page_size, page_size + 1}}

\* The pages a client asks for.
PageInputs == 1..3

\* Order listing: GET /orders/ by every caller over stores that hold orders
\* of two users, with tickets on the oldest and the newest order.
InitOrderListing ==
    /\ airplanes = <<>>
    /\ flights = <<>>
    /\ orders \in OrderStores
    /\ tickets = EmptyBag
    /\ next_id = [airplane |-> 1, flight |-> 1, order |-> Len(orders) + 1]
    /\ pc = [p \in Procs |-> "idle"]
    /\ cur = [p \in Procs |-> NoTicket]
    /\ result = [p \in Procs |-> NoResult]
    /\ response = NoResult
    /\ queryset_cache = NoCache
    /\ paginated = FALSE
    /\ probe = NoProbe

NextOrderListing ==
    \/ \E u \in Staff, payload \in SeatMapPayloads : AirplaneViewSetCreate(u, payload)
    \/ \E u \in Staff, a \in DOMAIN airplanes \cap {1} : FlightViewSetCreate(u, a)
    \/ \E u \in Users : OrderObjectsCreate(u)
    \/ \E o \in DOMAIN orders \cap {1, Len(orders)}, f \in DOMAIN flights \cap {1},
          row \in {1, MaxRows} :
           TicketSaveFullClean(1, o, f, row, 1)
    \/ TicketSaveInsert(1)
    \/ Return(1)
    \/ \E u \in Callers, page \in PageInputs : OrderViewSetList(u, page)

SpecOrderListing == InitOrderListing /\ [][NextOrderListing]_vars

\* Ticket.validate_ticket on its own: every airplane shape, zero included,
\* and every (row, seat) from one below to one above the seat map.
NextValidate ==
    \E row \in -1..(MaxRows + 1), seat \in -1..(MaxSeats + 1),
       rows \in 0..MaxRows, seats_in_row \in 0..MaxSeats :
        ValidateTicketCall(row, seat, rows, seats_in_row)

SpecValidate == Init /\ [][NextValidate]_vars

\* ------------------------------------------------------------------ claims
\* The rows of the Ticket table on the seat of row t, counted with copies.
SeatCount(t) ==
    BagCardinality([x \in {y \in BagToSet(tickets) :
                              SameSeat(y, t.flight, t.row, t.seat)} |-> tickets[x]])

\* C1: in every reachable state no two persisted tickets of one flight hold
\* the same (row, seat), whatever the interleaving of the ticket creations.
SeatsUnique == \A t \in BagToSet(tickets) : SeatCount(t) = 1

\* C1 witness: two saves raced for one seat, both passed full_clean, and the
\* store's constraint turned the second INSERT down.
RaceDecidedByStore ==
    \E p \in Procs :
        /\ result[p].error = "IntegrityError"
        /\ result[p].fields = {"unique_together"}
        /\ tickets # EmptyBag

\* C2: in every reachable state every persisted ticket lies inside the seat
\* map of the airplane currently assigned to its flight.
TicketsInSeatMap == \A t \in BagToSet(tickets) : InRange(t)

\* C3: an order-creation call whose batch holds an out-of-range request or
\* a duplicate (of a persisted ticket or within the batch) fails and leaves
\* the persisted orders and tickets exactly as they were.
OrderCreateAllOrNothing ==
    [][\A p \in Procs :
          (/\ result'[p] # result[p]
           /\ result'[p].op = "order_create"
           /\ ~result'[p].valid)
          => (/\ result'[p].status # 201
              /\ orders' = orders
              /\ tickets' = tickets)]_vars

\* C3 witness: an authenticated call whose first request is in range and
\* free and whose second request is out of range has been answered.
InvalidBatchAnswered ==
    \E p \in Procs :
        /\ result[p].op = "order_create"
        /\ is_authenticated(result[p].user)
        /\ Len(result[p].tickets) = 2
        /\ BatchValid(<<result[p].tickets[1]>>)
        /\ ~InRange(result[p].tickets[2])
        /\ ~result[p].valid

\* C4: of two order-creation calls that raced for the same free, in-range
\* seat exactly one succeeded (so one order was persisted), and exactly one
\* ticket holds the seat.
RaceHasOneWinner ==
    \A p, q \in Procs :
        (/\ p # q
         /\ result[p].op = "order_create" /\ result[q].op = "order_create"
         /\ is_authenticated(result[p].user) /\ is_authenticated(result[q].user)
         /\ Len(result[p].tickets) = 1
         /\ result[q].tickets = result[p].tickets
         /\ result[p].valid)
        => (/\ (result[p].status = 201) # (result[q].status = 201)
            /\ \E t \in BagToSet(tickets) :
                   /\ SameSeat(t, result[p].tickets[1].flight,
                               result[p].tickets[1].row, result[p].tickets[1].seat)
                   /\ SeatCount(t) = 1)

\* C5: a ticket creation whose in-process uniqueness check passed and whose
\* INSERT the store's uniqueness constraint rejected ends with the seat-taken
\* validation error, never with a raw integrity error.
RaceLoserSeesSeatTaken ==
    \A p \in Procs :
        "unique_together" \in result[p].fields
        => (result[p].error = "ValidationError" /\ "__all__" \in result[p].fields)

\* C6: every flight listing reports, for each flight, the capacity of its
\* airplane minus the number of tickets persisted for it at that moment.
ListingIsCurrent ==
    [][(/\ response' # response
        /\ response'.op = "flight_list"
        /\ response'.status = 200)
       => response'.body = FlightRows']_vars

\* The Ticket table with one row per request of the batch, for order o.
RECURSIVE WithBatch(_, _, _)
WithBatch(tks, reqs, o) ==
    IF reqs = <<>> THEN tks
    ELSE WithBatch(Inserted(tks, [flight |-> Head(reqs).flight, row |-> Head(reqs).row,
                                  seat |-> Head(reqs).seat, order |-> o]),
                   Tail(reqs), o)

\* C7: an order-creation call of an authenticated user with a valid batch
\* of at least one request succeeds and persists one new order of that user
\* with one ticket per request, each on the requested (flight, row, seat).
ValidOrderSucceeds ==
    [][\A p \in Procs :
          (/\ result'[p] # result[p]
           /\ result'[p].op = "order_create"
           /\ is_authenticated(result'[p].user)
           /\ Len(result'[p].tickets) >= 1
           /\ result'[p].valid)
          => (/\ result'[p].status = 201
              /\ \E o \in DOMAIN orders' \ DOMAIN orders :
                    /\ orders' = Put(orders, o, [user |-> result'[p].user])
                    /\ tickets' = WithBatch(tickets, result'[p].tickets, o))]_vars

RowOut(c) == ~(1 <= c.row /\ c.row <= c.rows)
SeatOut(c) == ~(1 <= c.seat /\ c.seat <= c.seats_in_row)

\* C8: validate_ticket accepts (row, seat) for an airplane of R rows and S
\* seats per row exactly when 1 <= row <= R and 1 <= seat <= S.
ValidateAcceptsExactlySeatMap ==
    probe.done => ((probe.fields = {}) <=> (~RowOut(probe) /\ ~SeatOut(probe)))

\* C8 witness: the last seat of the largest seat map was checked and accepted.
LastSeatAccepted ==
    /\ probe.done
    /\ probe.rows = MaxRows /\ probe.seats_in_row = MaxSeats
    /\ probe.row = MaxRows /\ probe.seat = MaxSeats
    /\ probe.fields = {}

\* C9: on the airplane endpoints an unauthenticated request is answered 401
\* and a create by a non-staff user 403, both leaving the airplanes as they
\* were; a create by a staff user is answered 201 and persists one airplane
\* with exactly the submitted name, rows, seats_in_row and airplane type.
AirplaneAccessControl ==
    [][(/\ response' # response
        /\ response'.op \in {"airplane_create", "airplane_list"})
       => LET r == response'
          IN /\ ~is_authenticated(r.user)
                  => (r.status = 401 /\ airplanes' = airplanes)
             /\ (r.op = "airplane_create" /\ is_authenticated(r.user)
                 /\ ~is_staff(r.user))
                  => (r.status = 403 /\ airplanes' = airplanes)
             /\ (r.op = "airplane_create" /\ is_staff(r.user))
                  => (/\ r.status = 201
                      /\ r.body[1] \notin DOMAIN airplanes
                      /\ airplanes' = Put(airplanes, r.body[1],
                            [name |-> r.body[2].name, rows |-> r.body[2].rows,
                             seats_in_row |-> r.body[2].seats_in_row,
                             airplane_type |-> r.body[2].airplane_type]))]_vars

\* C9 witness: a staff user created an airplane of MaxRows rows and one seat
\* per row.
StaffCreatedAirplane ==
    /\ response.op = "airplane_create"
    /\ response.status = 201
    /\ is_staff(response.user)
    /\ response.body[1] \in DOMAIN airplanes
    /\ airplanes[response.body[1]].rows = MaxRows
    /\ airplanes[response.body[1]].seats_in_row = 1

\* C10, as claimed: every field that is out of range is reported, so row and
\* seat are reported together when both are out of range, each with its range.
EveryOutOfRangeFieldReported ==
    probe.done =>
        /\ probe.fields = (IF RowOut(probe) THEN {"row"} ELSE {})
                          \cup (IF SeatOut(probe) THEN {"seat"} ELSE {})
        /\ "row" \in probe.fields => probe.ranges["row"] = <<1, probe.rows>>
        /\ "seat" \in probe.fields => probe.ranges["seat"] = <<1, probe.seats_in_row>>

\* C10, amended: at most one field is reported, the first that is out of
\* range with row checked before seat, together with its range; a seat that
\* is out of range is reported only when the row is in range.
FirstOutOfRangeFieldReported ==
    probe.done =>
        /\ Cardinality(probe.fields) <= 1
        /\ RowOut(probe) => (probe.fields = {"row"}
                             /\ probe.ranges["row"] = <<1, probe.rows>>)
        /\ (~RowOut(probe) /\ SeatOut(probe))
             => (probe.fields = {"seat"}
                 /\ probe.ranges["seat"] = <<1, probe.seats_in_row>>)
        /\ (~RowOut(probe) /\ ~SeatOut(probe)) => probe.fields = {}

\* C10 witness: a request with row and seat both out of range was checked
\* and the row alone was reported.
BothOutRowReported ==
    /\ probe.done
    /\ RowOut(probe) /\ SeatOut(probe)
    /\ probe.fields = {"row"}

\* C11: on both ticket creation paths, Ticket.save and TicketSerializer, a
\* request (naming an existing flight and order) whose row or seat is out of
\* range for its flight's airplane ends with the out-of-range error of the
\* row or seat field and never with the seat-taken error, also when a
\* persisted ticket holds the same (flight, row, seat).
RangeCheckedBeforeUniqueness ==
    \A p \in Procs :
        (/\ result[p].op \in {"ticket_create", "ticket_validate"}
         /\ result[p].fields \cap {"flight", "order"} = {}
         /\ result[p].out_of_range)
        => (/\ result[p].error = "ValidationError"
            /\ result[p].fields # {}
            /\ result[p].fields \subseteq {"row", "seat"})

\* The ids of the orders user u owns, in table ords.
OwnOrders(ords, u) == {o \in DOMAIN ords : ords[o].user = u}

\* C12: an order listing answered to user U holds exactly U's own orders
\* (the requested page of them, newest first, and their count), each with
\* exactly the tickets of that order; no order or ticket of another user is
\* in it, whatever other users' orders the store holds.
OrderListingScopedToCaller ==
    [][(/\ response' # response
        /\ response'.op = "order_list"
        /\ response'.status = 200)
       => LET b == response'.body[1]
              own == OwnOrders(orders', response'.user)
              listed == {b.results[i].id : i \in DOMAIN b.results}
              skipped == (b.page - 1) * page_size
          IN /\ listed \subseteq own
             /\ b.count = Cardinality(own)
             /\ Cardinality(listed) = Len(b.results)
             /\ Len(b.results) = IF b.count - skipped < page_size
                                 THEN b.count - skipped ELSE page_size
             /\ \A i \in DOMAIN b.results :
                    /\ Cardinality({o \in own : o > b.results[i].id})
                           = skipped + i - 1
                    /\ b.results[i].tickets =
                           {t \in BagToSet(tickets') : t.order = b.results[i].id}
                    /\ \A t \in b.results[i].tickets : t.order \in own]_vars

\* C12 witness: a customer was listed a full page of own orders, one of
\* them with a ticket, while the store's newest order and a ticket on it
\* belong to another user.
OtherUsersOrderNotListed ==
    /\ response.op = "order_list"
    /\ response.status = 200
    /\ response.user = "alice"
    /\ response.body[1].count = page_size
    /\ Len(response.body[1].results) = page_size
    /\ \E i \in DOMAIN response.body[1].results :
           response.body[1].results[i].tickets # {}
    /\ Len(orders) = page_size + 1
    /\ orders[Len(orders)].user = "admin"
    /\ \E t \in BagToSet(tickets) : t.order = Len(orders)

====
